---- MODULE Spec2Model ----
(***************************************************************************)
(* Model of functions/api/science-eq.js, the Cloudflare Pages Function     *)
(* behind /api/science-eq: the OPTIONS preflight handler, the POST handler *)
(* with its validation chain, the two provider calls (generateQuestion,    *)
(* gradeAnswer) and the CORS origin resolution.                            *)
(*                                                                         *)
(* JavaScript values are records [type, s, n]; a JSON object is a record   *)
(* over its keys; a string that has to be parsed (an Origin header, the    *)
(* provider's message content) is kept as its syntactic parts, and its     *)
(* text is the concatenation of the parts.                                 *)
(***************************************************************************)
EXTENDS Integers, Sequences, FiniteSets, TLC

VARIABLES pc, req, env, calls, reply, outcome, resp

vars == <<pc, req, env, calls, reply, outcome, resp>>

(***************************************************************************)
(* Bounds of the model.                                                    *)
(***************************************************************************)
\* Longest run of whitespace around the provider's message content.
MaxPad == 1

\* Largest score the provider is taken to send (the prompt asks for 0..8).
MaxProviderScore == 9

(***************************************************************************)
(* JavaScript values.                                                      *)
(***************************************************************************)
Undef == [type |-> "undefined", s |-> "", n |-> 0]

Null == [type |-> "null", s |-> "", n |-> 0]

Str(t) == [type |-> "string", s |-> t, n |-> 0]

Num(k) == [type |-> "number", s |-> "", n |-> k]

\* A non-integer number; s holds its decimal text.
Frac(t) == [type |-> "number", s |-> t, n |-> 1]

\* The one-element array [t].
Arr1(t) == [type |-> "array", s |-> t, n |-> 1]

\* ToBoolean: undefined, null, '' and 0 are falsy; arrays and objects are truthy.
Truthy(v) ==
    CASE v.type = "undefined" -> FALSE
      [] v.type = "null" -> FALSE
      [] v.type = "string" -> v.s # ""
      [] v.type = "number" -> ~(v.n = 0 /\ v.s = "")
      [] OTHER -> TRUE

\* ToPropertyKey / ToString of a value used as a property name or in a template.
ToPropertyKey(v) ==
    CASE v.type = "string" -> v.s
      [] v.type = "array" -> v.s
      [] v.type = "number" -> IF v.s # "" THEN v.s ELSE ToString(v.n)
      [] v.type = "null" -> "null"
      [] v.type = "undefined" -> "undefined"
      [] OTHER -> "[object Object]"

(***************************************************************************)
(* The allow-list.                                                         *)
(***************************************************************************)
ALLOWED ==
    [Physics |-> {"Electricity", "Forces & Motion"},
     Chemistry |-> {"Acids & Bases", "Atomic Structure"},
     Biology |-> {"Genetics", "Human Body (3 Main Systems)"}]

\* The six pairs of the allow-list table.
AllowedPairs == UNION {{<<sub, top>> : top \in ALLOWED[sub]} : sub \in DOMAIN ALLOWED}

\* Property names every object literal inherits from Object.prototype.
ObjectPrototypeKeys == {"constructor", "__proto__", "toString", "valueOf", "hasOwnProperty"}

\* ALLOWED[subject]: an own property is the topic array, an inherited one is a
\* truthy value that is no array (a function or the prototype object), any
\* other key is undefined.
AllowedGet(subject) ==
    LET key == ToPropertyKey(subject) IN
    CASE key \in DOMAIN ALLOWED -> [kind |-> "array", items |-> ALLOWED[key]]
      [] key \in ObjectPrototypeKeys -> [kind |-> "inherited", items |-> {}]
      [] OTHER -> [kind |-> "undefined", items |-> {}]

\* Array.prototype.includes compares with SameValueZero: only a string equals a string.
Includes(items, topic) == topic.type = "string" /\ topic.s \in items

(***************************************************************************)
(* CORS origin resolution.                                                 *)
(***************************************************************************)
AllowedOrigins ==
    {"https://artinamr.xyz",
     "http://localhost",
     "http://localhost:3000",
     "http://127.0.0.1:3000",
     "http://127.0.0.1:5500",
     "http://127.0.0.1:8788",
     "http://localhost:8788"}

FallbackOrigin == "https://artinamr.xyz"

\* An Origin header: absent, a text with no scheme, or scheme://host[:port]tail.
NoOrigin == [kind |-> "absent", scheme |-> "", host |-> "", port |-> "", tail |-> ""]

OpaqueOrigin == [kind |-> "text", scheme |-> "", host |-> "", port |-> "", tail |-> "null"]

UrlOrigin(scheme, host, port, tail) == [kind |-> "url", scheme |-> scheme, host |-> host, port |-> port, tail |-> tail]

\* The header's text as sent; headers.get('Origin') || '' is '' for an absent header.
HeaderText(h) ==
    CASE h.kind = "absent" -> ""
      [] h.kind = "text" -> h.tail
      [] OTHER -> h.scheme \o "://" \o h.host \o (IF h.port # "" THEN ":" \o h.port ELSE "") \o h.tail

\* ASCII lower-casing of the scheme and host tokens the model sends.
Lower(t) ==
    CASE t = "HTTP" -> "http"
      [] t = "LOCALHOST" -> "localhost"
      [] OTHER -> t

DefaultPort(scheme) ==
    CASE scheme = "http" -> "80"
      [] scheme = "https" -> "443"
      [] OTHER -> ""

\* new URL(origin): throws unless the text has a scheme and a host; the parsed
\* URL has a lower-cased scheme and host and an empty port when it is the
\* scheme's default.
UrlParses(h) == h.kind = "url"

UrlProtocol(h) == Lower(h.scheme) \o ":"

UrlHostname(h) == Lower(h.host)

UrlPort(h) == IF h.port = DefaultPort(Lower(h.scheme)) THEN "" ELSE h.port

UrlBase(h) == UrlProtocol(h) \o "//" \o UrlHostname(h) \o (IF UrlPort(h) # "" THEN ":" \o UrlPort(h) ELSE "")

\* Mutant: any parseable origin is echoed back.
getCorsOriginEchoAny(request) ==
    LET h == request.origin IN
    IF UrlParses(h) THEN UrlBase(h) ELSE FallbackOrigin

getCorsOrigin(request) ==
    LET h == request.origin IN
    IF UrlParses(h)
    THEN IF UrlBase(h) \in AllowedOrigins THEN UrlBase(h) ELSE FallbackOrigin
    ELSE FallbackOrigin

(***************************************************************************)
(* Responses.                                                              *)
(***************************************************************************)
\* JSON.stringify of an object literal: keys whose value is undefined are dropped.
JsonStringify(data) == [k \in {f \in DOMAIN data : data[f].type # "undefined"} |-> data[k]]

CorsHeaders(origin) ==
    [AccessControlAllowOrigin |-> origin,
     AccessControlAllowMethods |-> "POST, OPTIONS",
     AccessControlAllowHeaders |-> "Content-Type, Authorization"]

\* Mutant: the Content-Type header is not set.
jsonResponseNoContentType(data, status, origin) ==
    [status |-> status,
     headers |-> IF origin # "" THEN CorsHeaders(origin) ELSE [None |-> ""],
     hasBody |-> TRUE,
     body |-> JsonStringify(data)]

jsonResponse(data, status, origin) ==
    [status |-> status,
     headers |-> IF origin # ""
                 THEN [ContentType |-> "application/json"] @@ CorsHeaders(origin)
                 ELSE [ContentType |-> "application/json"],
     hasBody |-> TRUE,
     body |-> JsonStringify(data)]

ErrorBody(message) == [error |-> Str(message)]

NoResponse == [status |-> 0, headers |-> [None |-> ""], hasBody |-> FALSE, body |-> [None |-> Undef]]

(***************************************************************************)
(* The provider's reply.                                                   *)
(***************************************************************************)
RECURSIVE Spaces(_)
Spaces(k) == IF k = 0 THEN "" ELSE " " \o Spaces(k - 1)

\* The object a JSON content parses to, read through its five keys; a key the
\* object lacks, and every key of a JSON scalar or null, reads undefined.
ParsedObject(question, grade_band, score, feedback, improved_answer) ==
    [question |-> question, grade_band |-> grade_band, score |-> score,
     feedback |-> feedback, improved_answer |-> improved_answer]

NoKeys == ParsedObject(Undef, Undef, Undef, Undef, Undef)

\* data?.choices?.[0]?.message?.content: missing, a value that is no string,
\* a text that is not JSON (lead and trail spaces around core), or JSON text.
MissingContent == [form |-> "missing", lead |-> 0, core |-> "", trail |-> 0, parsed |-> NoKeys]

ObjectContent == [form |-> "object", lead |-> 0, core |-> "", trail |-> 0, parsed |-> NoKeys]

TextContent(lead, core, trail) == [form |-> "text", lead |-> lead, core |-> core, trail |-> trail, parsed |-> NoKeys]

JsonContent(parsed) == [form |-> "json", lead |-> 0, core |-> "", trail |-> 0, parsed |-> parsed]

\* content after `|| ''`, as text.
ContentText(c) == IF c.form = "text" THEN Spaces(c.lead) \o c.core \o Spaces(c.trail) ELSE ""

\* Mutant: no trimming.
TrimNothing(c) == ContentText(c)

\* String.prototype.trim: the text without its leading and trailing whitespace.
Trim(c) == IF c.form = "text" THEN c.core ELSE ""

\* JSON.parse(content) returns for JSON text and throws for anything else
\* ('' and '[object Object]' included).
JsonParses(c) == c.form = "json"

FetchFault(message) == [kind |-> "fault", message |-> message, status |-> 0, bodyJson |-> FALSE, content |-> MissingContent]

HttpReply(status, bodyJson, content) == [kind |-> "http", message |-> "", status |-> status, bodyJson |-> bodyJson, content |-> content]

NoReply == [kind |-> "none", message |-> "", status |-> 0, bodyJson |-> FALSE, content |-> MissingContent]

\* Response.ok
Ok(r) == r.status >= 200 /\ r.status <= 299

(***************************************************************************)
(* The two provider calls, from the reply on: each returns a result or     *)
(* throws an Error with a message.                                         *)
(***************************************************************************)
Thrown(message) == [threw |-> TRUE, message |-> message, value |-> [none |-> Undef]]

Returned(value) == [threw |-> FALSE, message |-> "", value |-> value]

\* What precedes the parse in both calls: the fetch, resp.ok, resp.json().
ReplyFailure(r) ==
    CASE r.kind = "fault" -> Thrown(r.message)
      [] ~Ok(r) -> Thrown("OpenAI error (" \o ToString(r.status) \o ")")
      [] ~r.bodyJson -> Thrown("Unexpected token < in JSON at position 0")
      [] OTHER -> Returned([none |-> Undef])

\* try { parsed = JSON.parse(content) } catch { parsed = { question: content?.trim() } }
GenerateParsed(c) == IF JsonParses(c) THEN c.parsed ELSE [NoKeys EXCEPT !.question = Str(Trim(c))]

generateQuestion(r) ==
    LET c == r.content IN
    CASE ReplyFailure(r).threw -> ReplyFailure(r)
      [] ~JsonParses(c) /\ c.form = "object" -> Thrown("content?.trim is not a function")
      [] ~Truthy(GenerateParsed(c).question) -> Thrown("No question returned from model.")
      [] OTHER -> Returned([question |-> GenerateParsed(c).question])

\* Mutant: the value as it is, no default.
OrEmptyNoDefault(v) == v

\* parsed.feedback || ''
OrEmpty(v) == IF Truthy(v) THEN v ELSE Str("")

\* Mutant: !parsed?.grade_band || !parsed?.score, which rejects a score of 0.
GradeIncompleteFalsyScore(parsed) == ~Truthy(parsed.grade_band) \/ ~Truthy(parsed.score)

\* !parsed?.grade_band || typeof parsed?.score === 'undefined'
GradeIncomplete(parsed) == ~Truthy(parsed.grade_band) \/ parsed.score.type = "undefined"

gradeAnswer(r) ==
    LET c == r.content IN
    CASE ReplyFailure(r).threw -> ReplyFailure(r)
      [] ~JsonParses(c) -> Thrown("Failed to parse grading JSON.")
      [] GradeIncomplete(c.parsed) -> Thrown("Incomplete grading response.")
      [] OTHER -> Returned([grade_band |-> c.parsed.grade_band,
                            score |-> c.parsed.score,
                            feedback |-> OrEmpty(c.parsed.feedback),
                            improved_answer |-> OrEmpty(c.parsed.improved_answer)])

(***************************************************************************)
(* Requests.                                                               *)
(***************************************************************************)
\* The body of a POST: text that is not JSON, or the JSON value read through
\* the five keys the handler destructures (`body || {}` reads null as {}).
MalformedBody == [form |-> "malformed", action |-> Undef, subject |-> Undef, topic |-> Undef, question |-> Undef, answer |-> Undef]

NullBody == [form |-> "null", action |-> Undef, subject |-> Undef, topic |-> Undef, question |-> Undef, answer |-> Undef]

JsonBody(action, subject, topic, question, answer) ==
    [form |-> "json", action |-> action, subject |-> subject, topic |-> topic, question |-> question, answer |-> answer]

NoRequest == [method |-> "", origin |-> NoOrigin, body |-> NullBody]

NoEnv == [OPENAI_API_KEY |-> Undef]

\* The values the model sends.
Origins ==
    {NoOrigin, OpaqueOrigin,
     UrlOrigin("https", "artinamr.xyz", "", ""),
     UrlOrigin("http", "localhost", "", ""),
     UrlOrigin("http", "localhost", "3000", ""),
     UrlOrigin("http", "127.0.0.1", "3000", ""),
     UrlOrigin("http", "127.0.0.1", "5500", ""),
     UrlOrigin("http", "127.0.0.1", "8788", ""),
     UrlOrigin("http", "localhost", "8788", ""),
     UrlOrigin("http", "evil.example", "", ""),
     UrlOrigin("https", "localhost", "3000", ""),
     UrlOrigin("http", "localhost", "8080", ""),
     UrlOrigin("https", "artinamr.xyz", "443", ""),
     UrlOrigin("HTTP", "LOCALHOST", "3000", ""),
     UrlOrigin("http", "localhost", "3000", "/")}

Keys == {Undef, Str(""), Str("sk-test")}

Actions == {Undef, Str("generate"), Str("grade"), Str("delete")}

Subjects == {Undef, Str(""), Str("Physics"), Str("Chemistry"), Str("Biology"), Str("Maths"), Str("constructor"), Arr1("Physics")}

Topics == {Undef, Str("Isotopes")} \cup {Str(top) : top \in UNION {ALLOWED[sub] : sub \in DOMAIN ALLOWED}}

Questions == {Undef, Str("Q")}

Answers == {Undef, Str(""), Str("A")}

Bodies ==
    {MalformedBody, NullBody}
    \cup {JsonBody(a, s, t, q, w) : a \in Actions, s \in Subjects, t \in Topics, q \in Questions, w \in Answers}

Scores == {Undef, Null, Str("7"), Frac("2.5")} \cup {Num(k) : k \in -1..MaxProviderScore}

QuestionObjects == {ParsedObject(q, Undef, Undef, Undef, Undef) : q \in {Undef, Null, Str(""), Str("Q")}}

GradeObjects ==
    {ParsedObject(Undef, b, s, f[1], f[2]) :
        b \in {Undef, Null, Str(""), Str("Merit"), Str("Excellence"), Str("Superb")},
        s \in Scores,
        f \in {<<Undef, Undef>>, <<Str("Good"), Str("Better")>>, <<Num(5), Str("")>>}}

Contents ==
    {MissingContent, ObjectContent}
    \cup {TextContent(l, c, r) : l \in 0..MaxPad, c \in {"", "What is voltage?"}, r \in 0..MaxPad}
    \cup {JsonContent(o) : o \in QuestionObjects \cup GradeObjects}

Replies ==
    {FetchFault("Network connection lost."), FetchFault("")}
    \cup {HttpReply(429, FALSE, MissingContent), HttpReply(500, TRUE, MissingContent), HttpReply(200, FALSE, MissingContent)}
    \cup {HttpReply(200, TRUE, c) : c \in Contents}

(***************************************************************************)
(* The handlers.                                                           *)
(***************************************************************************)
\* Mutant: env.OPENAI_API_KEY === undefined, which lets an empty key through.
CredentialMissingOnlyUndefined(environment) == environment.OPENAI_API_KEY.type = "undefined"

\* !env.OPENAI_API_KEY
CredentialMissing(environment) == ~Truthy(environment.OPENAI_API_KEY)

\* request.json() throws
BodyUnparseable(body) == body.form = "malformed"

\* !action || !subject || !topic
FieldsMissing(body) == ~Truthy(body.action) \/ ~Truthy(body.subject) \/ ~Truthy(body.topic)

\* ALLOWED[subject] is truthy but has no includes method: the call throws a TypeError.
AllowListThrows(body) == AllowedGet(body.subject).kind = "inherited"

\* !ALLOWED[subject] || !ALLOWED[subject].includes(topic)
PairRejected(body) ==
    \/ AllowedGet(body.subject).kind = "undefined"
    \/ AllowedGet(body.subject).kind = "array" /\ ~Includes(AllowedGet(body.subject).items, body.topic)

\* Mutant: !question, which lets a grade request without an answer through.
GradeFieldsMissingQuestionOnly(body) == ~Truthy(body.question)

\* !question || !answer
GradeFieldsMissing(body) == ~Truthy(body.question) \/ ~Truthy(body.answer)

\* e.message || 'Internal error.'
CaughtMessage(message) == IF message # "" THEN message ELSE "Internal error."

Respond(response) == [kind |-> "response", response |-> response, call |-> ""]

Propagate == [kind |-> "exception", response |-> NoResponse, call |-> ""]

Await(call) == [kind |-> "await", response |-> NoResponse, call |-> call]

\* onRequestPost up to its first suspension: a response, an exception that
\* leaves the handler, or the provider call it awaits.
PostStart(request, environment) ==
    LET origin == getCorsOrigin(request)
        body == request.body
    IN  CASE CredentialMissing(environment) ->
                Respond(jsonResponse(ErrorBody("Server not configured: OPENAI_API_KEY missing."), 500, origin))
          [] BodyUnparseable(body) ->
                Respond(jsonResponse(ErrorBody("Invalid JSON body."), 400, origin))
          [] FieldsMissing(body) ->
                Respond(jsonResponse(ErrorBody("Missing required fields: action, subject, topic."), 400, origin))
          [] AllowListThrows(body) -> Propagate
          [] PairRejected(body) ->
                Respond(jsonResponse(ErrorBody("Invalid subject/topic selection."), 400, origin))
          [] body.action = Str("generate") -> Await("generate")
          [] body.action = Str("grade") /\ GradeFieldsMissing(body) ->
                Respond(jsonResponse(ErrorBody("Missing question or answer for grading."), 400, origin))
          [] body.action = Str("grade") -> Await("grade")
          [] OTHER -> Respond(jsonResponse(ErrorBody("Unknown action."), 400, origin))

\* onRequestPost from the provider call's completion on: the result as a 200,
\* or the caught Error as a 500.
PostFinish(request, result) ==
    IF result.threw
    THEN jsonResponse(ErrorBody(CaughtMessage(result.message)), 500, getCorsOrigin(request))
    ELSE jsonResponse(result.value, 200, getCorsOrigin(request))

PreflightResponse(request) ==
    [status |-> 204,
     headers |-> CorsHeaders(getCorsOrigin(request)),
     hasBody |-> FALSE,
     body |-> [None |-> Undef]]

(***************************************************************************)
(* The state machine: one invocation at a time, no state kept across       *)
(* invocations.                                                            *)
(***************************************************************************)
Init ==
    /\ pc = "idle"
    /\ req = NoRequest
    /\ env = NoEnv
    /\ calls = 0
    /\ reply = NoReply
    /\ outcome = "none"
    /\ resp = NoResponse

onRequestOptions ==
    /\ pc = "idle"
    /\ \E o \in Origins, k \in Keys :
          /\ req' = [method |-> "OPTIONS", origin |-> o, body |-> NullBody]
          /\ env' = [OPENAI_API_KEY |-> k]
    /\ resp' = PreflightResponse(req')
    /\ outcome' = "response"
    /\ pc' = "done"
    /\ UNCHANGED <<calls, reply>>

onRequestPost ==
    /\ pc = "idle"
    /\ \E o \in Origins, k \in Keys, b \in Bodies :
          /\ req' = [method |-> "POST", origin |-> o, body |-> b]
          /\ env' = [OPENAI_API_KEY |-> k]
    /\ LET start == PostStart(req', env') IN
          /\ pc' = IF start.kind = "await" THEN start.call ELSE "done"
          /\ outcome' = IF start.kind = "await" THEN "none" ELSE start.kind
          /\ resp' = start.response
          /\ calls' = IF start.kind = "await" THEN calls + 1 ELSE calls
    /\ UNCHANGED reply

generateQuestionSettles ==
    /\ pc = "generate"
    /\ \E r \in Replies : reply' = r
    /\ resp' = PostFinish(req, generateQuestion(reply'))
    /\ outcome' = "response"
    /\ pc' = "done"
    /\ UNCHANGED <<req, env, calls>>

gradeAnswerSettles ==
    /\ pc = "grade"
    /\ \E r \in Replies : reply' = r
    /\ resp' = PostFinish(req, gradeAnswer(reply'))
    /\ outcome' = "response"
    /\ pc' = "done"
    /\ UNCHANGED <<req, env, calls>>

\* The invocation is over; the next request starts from nothing.
NextInvocation ==
    /\ pc = "done"
    /\ pc' = "idle"
    /\ req' = NoRequest
    /\ env' = NoEnv
    /\ calls' = 0
    /\ reply' = NoReply
    /\ outcome' = "none"
    /\ resp' = NoResponse

Next ==
    \/ onRequestOptions
    \/ onRequestPost
    \/ generateQuestionSettles
    \/ gradeAnswerSettles
    \/ NextInvocation

Spec == Init /\ [][Next]_vars

(***************************************************************************)
(* Vocabulary of the properties, stated on the request, the reply and the  *)
(* response only.                                                          *)
(***************************************************************************)
Finished == pc = "done"

IsPost == req.method = "POST"

IsOptions == req.method = "OPTIONS"

GotResponse == Finished /\ outcome = "response"

ErrorIs(status, message) ==
    /\ GotResponse
    /\ resp.status = status
    /\ DOMAIN resp.body = {"error"}
    /\ resp.body.error = Str(message)

Configured == env.OPENAI_API_KEY.type = "string" /\ env.OPENAI_API_KEY.s # ""

Present(v) == v.type # "undefined"

NonEmpty(v) == v.type \notin {"undefined", "null"} /\ v # Str("")

\* The request gets as far as the allow-list check of step 5.
ReachesAllowList == IsPost /\ Configured /\ req.body.form = "json" /\ NonEmpty(req.body.action) /\ NonEmpty(req.body.subject) /\ NonEmpty(req.body.topic)

\* (subject, topic) is one of the six pairs of the table.
PairInTable == \E p \in AllowedPairs : req.body.subject = Str(p[1]) /\ req.body.topic = Str(p[2])

\* A request that passes every check of steps 3 to 6.
ValidGenerate == req.body.form = "json" /\ req.body.action = Str("generate") /\ PairInTable

ValidGrade == req.body.form = "json" /\ req.body.action = Str("grade") /\ PairInTable /\ NonEmpty(req.body.question) /\ NonEmpty(req.body.answer)

\* The provider answered with a success status and a JSON body.
ReplyRead == reply.kind = "http" /\ reply.status = 200 /\ reply.bodyJson

GradeKeys == {"grade_band", "score", "feedback", "improved_answer"}

IsString(v) == v.type = "string"

IsBand(v) == v.type = "string" /\ v.s \in {"Not Achieved", "Achieved", "Merit", "Excellence"}

IsScore(v) == v.type = "number" /\ v.s = "" /\ v.n >= 0 /\ v.n <= 8

(***************************************************************************)
(* C1. Every POST that reaches the allow-list check with a (subject,       *)
(* topic) pair that is not one of the six pairs of the table is answered   *)
(* 400 'Invalid subject/topic selection.', whatever the subject, the topic *)
(* and the action.                                                         *)
(***************************************************************************)
C1_InvalidPairRejected ==
    Finished /\ ReachesAllowList /\ ~PairInTable
        => ErrorIs(400, "Invalid subject/topic selection.")

\* Where C1 does hold: the subject is a string that names no property
\* inherited from Object.prototype.
C1_HoldsForPlainSubjects ==
    Finished /\ ReachesAllowList /\ ~PairInTable
      /\ req.body.subject.type = "string" /\ req.body.subject.s \notin ObjectPrototypeKeys
        => ErrorIs(400, "Invalid subject/topic selection.")

(***************************************************************************)
(* C2. Every POST finishes by returning a response of status 200, 400 or   *)
(* 500 with a JSON body; no exception leaves the handler.                  *)
(***************************************************************************)
C2_NeverThrows ==
    Finished /\ IsPost
        => outcome = "response" /\ resp.status \in {200, 400, 500} /\ resp.hasBody

(***************************************************************************)
(* C3. With env.OPENAI_API_KEY absent or empty, every POST is answered 500 *)
(* 'Server not configured: OPENAI_API_KEY missing.' whatever its body, and *)
(* no provider call is made.                                               *)
(***************************************************************************)
C3_ConfigErrorFirst ==
    IsPost /\ env.OPENAI_API_KEY \in {Undef, Str("")}
        => /\ ErrorIs(500, "Server not configured: OPENAI_API_KEY missing.")
           /\ calls = 0

\* An unconfigured POST whose body is malformed, answered with the configuration error.
C3_Witness ==
    /\ IsPost
    /\ env.OPENAI_API_KEY = Str("")
    /\ req.body.form = "malformed"
    /\ ErrorIs(500, "Server not configured: OPENAI_API_KEY missing.")
    /\ calls = 0

ReplyConforms ==
    /\ IsBand(reply.content.parsed.grade_band)
    /\ IsScore(reply.content.parsed.score)
    /\ \A k \in {"feedback", "improved_answer"} : reply.content.parsed[k] = Undef \/ IsString(reply.content.parsed[k])

C5_NoPartialResults ==
    Finished /\ IsPost
        => /\ outcome = "response"
           /\ \/ /\ resp.status = 200
                 /\ req.body.action = Str("generate")
                 /\ DOMAIN resp.body = {"question"}
              \/ /\ resp.status = 200
                 /\ req.body.action = Str("grade")
                 /\ DOMAIN resp.body = GradeKeys
              \/ /\ resp.status \in {400, 500}
                 /\ DOMAIN resp.body = {"error"}
                 /\ IsString(resp.body.error)

\* Where C5 does hold: every response the handler returns is whole.
C5_ReturnedResponsesWhole ==
    GotResponse /\ IsPost
        => \/ /\ resp.status = 200
              /\ req.body.action = Str("generate")
              /\ DOMAIN resp.body = {"question"}
           \/ /\ resp.status = 200
              /\ req.body.action = Str("grade")
              /\ DOMAIN resp.body = GradeKeys
           \/ /\ resp.status \in {400, 500}
              /\ DOMAIN resp.body = {"error"}
              /\ IsString(resp.body.error)

\* The provider's content is a string that is not JSON.
TextReply == ReplyRead /\ reply.content.form = "text"

(***************************************************************************)
(* C6 as stated. For a valid request and a reply of success status whose   *)
(* content is not valid JSON, generate answers 200 with the trimmed        *)
(* content as the question and grade answers 500 'Failed to parse grading  *)
(* JSON.'.                                                                 *)
(***************************************************************************)
C6_ParseAsymmetry ==
    GotResponse /\ IsPost /\ Configured /\ TextReply
        => /\ ValidGenerate
                 => /\ resp.status = 200
                    /\ resp.body = [question |-> Str(reply.content.core)]
           /\ ValidGrade => ErrorIs(500, "Failed to parse grading JSON.")

(***************************************************************************)
(* C6 as amended. For a valid request and a reply of success status whose  *)
(* content is a string that is not valid JSON, generate answers 200 with   *)
(* the trimmed content as the question when the trimmed content is not     *)
(* empty, and 500 'No question returned from model.' when it is empty;     *)
(* grade answers 500 'Failed to parse grading JSON.' in both cases.        *)
(***************************************************************************)
C6_ParseAsymmetryNonBlank ==
    GotResponse /\ IsPost /\ Configured /\ TextReply
        => /\ ValidGenerate /\ reply.content.core # ""
                 => /\ resp.status = 200
                    /\ resp.body = [question |-> Str(reply.content.core)]
           /\ ValidGenerate /\ reply.content.core = ""
                 => ErrorIs(500, "No question returned from model.")
           /\ ValidGrade => ErrorIs(500, "Failed to parse grading JSON.")

\* A generate call answered with padded text: the question is the text without the padding.
C6_Witness ==
    /\ GotResponse /\ Configured /\ ValidGenerate /\ TextReply
    /\ reply.content.lead = MaxPad
    /\ reply.content.core = "What is voltage?"
    /\ resp.status = 200
    /\ resp.body.question = Str("What is voltage?")

\* The provider's content parses as JSON.
JsonReply == ReplyRead /\ reply.content.form = "json"

(***************************************************************************)
(* C7 as stated. For a valid grade request whose reply parses as JSON, the *)
(* answer is 500 'Incomplete grading response.' exactly when grade_band or *)
(* score is absent from the parsed object, and 200 whenever both are       *)
(* present, whatever their values.                                         *)
(***************************************************************************)
C7_IncompleteIffAbsent ==
    GotResponse /\ IsPost /\ Configured /\ ValidGrade /\ JsonReply
        => IF Present(reply.content.parsed.grade_band) /\ Present(reply.content.parsed.score)
           THEN resp.status = 200
           ELSE ErrorIs(500, "Incomplete grading response.")

\* undefined, null, '' (and 0, false) are falsy.
Falsy(v) == v.type \in {"undefined", "null"} \/ v = Str("") \/ v = Num(0)

(***************************************************************************)
(* C7 as amended. For a valid grade request whose reply parses as JSON,    *)
(* the answer is 500 'Incomplete grading response.' exactly when           *)
(* grade_band is absent or falsy (null, the empty string) or score is      *)
(* absent, and 200 whenever grade_band is truthy and score is present,     *)
(* whatever the score's value (0 and null included).                       *)
(***************************************************************************)
C7_IncompleteIffFalsyBand ==
    GotResponse /\ IsPost /\ Configured /\ ValidGrade /\ JsonReply
        => IF ~Falsy(reply.content.parsed.grade_band) /\ Present(reply.content.parsed.score)
           THEN resp.status = 200
           ELSE ErrorIs(500, "Incomplete grading response.")

\* A band with a score of 0 is complete.
C7_Witness ==
    /\ GotResponse /\ Configured /\ ValidGrade /\ JsonReply
    /\ reply.content.parsed.grade_band = Str("Merit")
    /\ reply.content.parsed.score = Num(0)
    /\ resp.status = 200
    /\ resp.body.score = Num(0)

\* The header's value on the response, '' when the response lacks the header.
ResponseHeader(name) == IF name \in DOMAIN resp.headers THEN resp.headers[name] ELSE ""

(***************************************************************************)
(* C8 as stated. Every response (the preflight's 204, a POST's 200, 400 or *)
(* 500) carries Access-Control-Allow-Origin: the request's exact Origin    *)
(* when that header is in the allow-set of seven origins, and              *)
(* https://artinamr.xyz when the header is absent, unparseable or not in   *)
(* the set.                                                                *)
(***************************************************************************)
C8_EchoExactOrFallback ==
    GotResponse
        => /\ "AccessControlAllowOrigin" \in DOMAIN resp.headers
           /\ resp.headers.AccessControlAllowOrigin =
                 (IF HeaderText(req.origin) \in AllowedOrigins THEN HeaderText(req.origin) ELSE "https://artinamr.xyz")

\* scheme://host[:port] of the header: scheme and host in lower case, the
\* scheme's default port and everything after the port left out.
Reduced(h) ==
    LET scheme == IF h.scheme = "HTTP" THEN "http" ELSE h.scheme
        host == IF h.host = "LOCALHOST" THEN "localhost" ELSE h.host
        port == IF <<scheme, h.port>> \in {<<"http", "80">>, <<"https", "443">>} THEN "" ELSE h.port
    IN  scheme \o "://" \o host \o (IF port = "" THEN "" ELSE ":" \o port)

(***************************************************************************)
(* C8 as amended. Every response (the preflight's 204, a POST's 200, 400   *)
(* or 500) carries Access-Control-Allow-Origin, whose value is always a    *)
(* member of the allow-set of seven origins: the Origin header reduced to  *)
(* scheme://host[:port] (lower-cased, default port and path dropped) when  *)
(* that reduced form is in the set, which is the exact header when the     *)
(* header itself is in the set, and https://artinamr.xyz when the header   *)
(* is absent, unparseable or reduces to an origin outside the set.         *)
(***************************************************************************)
C8_EchoReducedOrFallback ==
    GotResponse
        => /\ "AccessControlAllowOrigin" \in DOMAIN resp.headers
           /\ resp.headers.AccessControlAllowOrigin \in AllowedOrigins
           /\ HeaderText(req.origin) \in AllowedOrigins
                 => resp.headers.AccessControlAllowOrigin = HeaderText(req.origin)
           /\ resp.headers.AccessControlAllowOrigin =
                 (IF req.origin.kind = "url" /\ Reduced(req.origin) \in AllowedOrigins
                  THEN Reduced(req.origin)
                  ELSE "https://artinamr.xyz")

\* A POST answered 400 whose Origin header is no member of the set but reduces to one.
C8_Witness ==
    /\ GotResponse /\ IsPost /\ resp.status = 400
    /\ HeaderText(req.origin) = "HTTP://LOCALHOST:3000"
    /\ resp.headers.AccessControlAllowOrigin = "http://localhost:3000"

(***************************************************************************)
(* C9 as stated. Every response, the preflight's 204 and every POST        *)
(* response alike, carries Content-Type: application/json.                 *)
(***************************************************************************)
C9_AlwaysJsonContentType ==
    GotResponse => ResponseHeader("ContentType") = "application/json"

(***************************************************************************)
(* C9 as amended. Every POST response, success or error, carries           *)
(* Content-Type: application/json; the preflight's 204 response has no     *)
(* body and carries no Content-Type header.                                *)
(***************************************************************************)
C9_PostJsonContentType ==
    GotResponse
        => /\ IsPost => ResponseHeader("ContentType") = "application/json" /\ resp.hasBody
           /\ IsOptions => "ContentType" \notin DOMAIN resp.headers /\ ~resp.hasBody /\ resp.status = 204

\* A 500 from a failed provider call, sent as JSON.
C9_Witness ==
    /\ GotResponse /\ IsPost /\ resp.status = 500
    /\ reply.kind = "http" /\ reply.status = 429
    /\ resp.headers.ContentType = "application/json"

\* The body passes every check of steps 3 to 6, the subject read as the
\* property name it is looked up by.
PassesChecks ==
    /\ req.body.form = "json"
    /\ \E p \in AllowedPairs : ToPropertyKey(req.body.subject) = p[1] /\ req.body.topic = Str(p[2])
    /\ \/ req.body.action = Str("generate")
       \/ req.body.action = Str("grade") /\ NonEmpty(req.body.question) /\ NonEmpty(req.body.answer)

====
